---- MODULE Spec2Model ----
(***************************************************************************)
(* Model of src/main.rs: the schema model builder (parse_schema_file), the *)
(* per-statement scope builder and projection resolver (parse_query_file,  *)
(* extract_aliases_using_relation, extract_output_fields_from_select_item),*)
(* the diagnostic window (extract_debug_block_with_line_number_range) and  *)
(* the batch driver (main).                                                *)
(*                                                                         *)
(* The external SQL parser is a collaborator: the model starts from its    *)
(* output, an AST or a parse error.  Option<T> is a sequence of length 0   *)
(* (None) or 1 (Some).  A HashMap is a function on its key set.            *)
(***************************************************************************)
EXTENDS Integers, Sequences, FiniteSets, TLC

VARIABLES
    \* parse_schema_file
    schema_pc,       \* "loop" | "ok" | "err"
    schema_ast,      \* the statements of the schema AST consumed so far
    tables,          \* HashMap<String, HashMap<String, String>>
    \* one iteration of parse_query_file's statement loop
    sel_pc,          \* "start" | "done" | "panicked"
    statement,       \* the statement being resolved
    aliases,         \* HashMap<String, String>, the statement's scope
    output_fields,   \* Vec<QueryOutputField>
    \* QueryParseError::from_parser_error
    diag_pc,         \* "start" | "done"
    text,            \* the source text, as its lines (text.split("\n"))
    parser_error,    \* the ParserError
    debug,           \* Option<String>, the window as its lines
    \* main
    pc,              \* "schema" | "dir" | "file" | "done" | "exit1" | "error" | "panicked"
    schema,          \* Option<SchemaParseResult.table_fields>
    files,           \* the directory entries visited so far, with their fate
    file_ast,        \* the statements of the current file consumed so far
    results,         \* parse_query_file's results for the current file
    scope,           \* parse_query_file's aliases of the last statement
    queries          \* Vec<QueryParseResult>

schemaVars == <<schema_pc, schema_ast, tables>>
selVars    == <<sel_pc, statement, aliases, output_fields>>
diagVars   == <<diag_pc, text, parser_error, debug>>
mainVars   == <<pc, schema, files, file_ast, results, scope, queries>>
vars       == <<schemaVars, selVars, diagVars, mainVars>>

-----------------------------------------------------------------------------
(* Bounds of the model *)

MaxCols        == 2   \* columns per CREATE TABLE
MaxSchemaStmts == 2   \* statements per schema file
MaxRel         == 2   \* relations per FROM clause (FROM entries and their joins)
MaxProj        == 2   \* items per projection
MaxLines       == 6   \* lines per source text
MaxFiles       == 2   \* entries of the queries directory
MaxStmts       == 2   \* statements per query file

-----------------------------------------------------------------------------
(* Generic helpers *)

None == <<>>
Some(x) == <<x>>

EmptyMap == <<>>

\* HashMap::insert: the value of an existing key is replaced
MapInsert(m, k, v) == [x \in (DOMAIN m) \cup {k} |-> IF x = k THEN v ELSE m[x]]

\* HashMap::extend: every entry of n is inserted into m
MapExtend(m, n) == [x \in (DOMAIN m) \cup (DOMAIN n) |-> IF x \in DOMAIN n THEN n[x] ELSE m[x]]

SeqsUpTo(S, n) == UNION {[1..k -> S] : k \in 0..n}

\* Display of an ObjectName: its identifiers joined by "."
RECURSIVE ObjectNameToString(_)
ObjectNameToString(name) ==
    IF Len(name) = 0 THEN ""
    ELSE IF Len(name) = 1 THEN name[1]
    ELSE name[1] \o "." \o ObjectNameToString(Tail(name))

-----------------------------------------------------------------------------
(* parse_schema_file *)

ColumnDefs ==
    { [name |-> "id", data_type |-> "INTEGER"],
      [name |-> "id", data_type |-> "TEXT"],
      [name |-> "total", data_type |-> "TEXT"] }

SchemaTableNames == { <<"orders">>, <<"main", "customers">> }

CreateTables ==
    { [kind |-> "CreateTable", name |-> n, columns |-> cs] :
        n \in SchemaTableNames, cs \in SeqsUpTo(ColumnDefs, MaxCols) }

SchemaStatements == CreateTables \cup { [kind |-> "Other"] }

\* lines 285-289: the columns map of one CREATE TABLE, filled in declaration order
RECURSIVE ColumnsMap(_)
ColumnsMap(columns) ==
    IF columns = <<>> THEN EmptyMap
    ELSE LET n == Len(columns)
         IN  MapInsert(ColumnsMap(SubSeq(columns, 1, n - 1)),
                       columns[n].name, columns[n].data_type)

\* A bug the redeclaration rule excludes: the entry is merged with the earlier one
TablesInsertMerging(tbls, stmt) ==
    LET t == ObjectNameToString(stmt.name)
        old == IF t \in DOMAIN tbls THEN tbls[t] ELSE EmptyMap
    IN  MapInsert(tbls, t, MapExtend(old, ColumnsMap(stmt.columns)))

\* lines 282-292: the CreateTable arm
TablesInsert(tbls, stmt) ==
    MapInsert(tbls, ObjectNameToString(stmt.name), ColumnsMap(stmt.columns))

\* lines 281-294: one iteration of the loop over the AST
SchemaStatement(stmt) ==
    /\ schema_pc = "loop"
    /\ Len(schema_ast) < MaxSchemaStmts
    /\ schema_ast' = Append(schema_ast, stmt)
    /\ tables' = IF stmt.kind = "CreateTable" THEN TablesInsert(tables, stmt) ELSE tables
    /\ UNCHANGED schema_pc
    /\ UNCHANGED <<selVars, diagVars, mainVars>>

\* lines 273-276: the parser rejected the text
SchemaParseFail ==
    /\ schema_pc = "loop"
    /\ schema_ast = <<>>
    /\ schema_pc' = "err"
    /\ UNCHANGED <<schema_ast, tables>>
    /\ UNCHANGED <<selVars, diagVars, mainVars>>

\* lines 297-299
SchemaReturn ==
    /\ schema_pc = "loop"
    /\ schema_pc' = "ok"
    /\ UNCHANGED <<schema_ast, tables>>
    /\ UNCHANGED <<selVars, diagVars, mainVars>>


SchemaNext ==
    \/ \E stmt \in SchemaStatements : SchemaStatement(stmt)
    \/ SchemaParseFail
    \/ SchemaReturn

-----------------------------------------------------------------------------
(* The resolver: extract_aliases_using_relation,                           *)
(* extract_output_fields_from_select_item and the loop body of             *)
(* parse_query_file                                                        *)

\* TableFactor
Relations ==
    { [kind |-> "Table", name |-> <<"orders">>, alias |-> None],
      [kind |-> "Table", name |-> <<"orders">>, alias |-> Some("o")],
      [kind |-> "Table", name |-> <<"customers">>, alias |-> Some("o")],
      [kind |-> "Table", name |-> <<"customers">>, alias |-> Some("orders")],
      [kind |-> "Table", name |-> <<"main", "orders">>, alias |-> Some("o")],
      [kind |-> "Derived", alias |-> Some("o")] }

Ident(i) == [kind |-> "UnnamedExpr", expr |-> [kind |-> "Identifier", ident |-> i]]
Compound(is) == [kind |-> "UnnamedExpr", expr |-> [kind |-> "CompoundIdentifier", idents |-> is]]

\* SelectItem
SelectItems ==
    { Ident("id"),
      Compound(<<"o", "id">>),
      Compound(<<"orders", "id">>),
      Compound(<<"x", "total">>),
      Compound(<<"o", "orders", "id">>),
      Compound(<<"o", "main", "orders", "id">>),
      Compound(<<"db", "o", "main", "orders", "id">>),
      [kind |-> "UnnamedExpr", expr |-> [kind |-> "Function"]],
      [kind |-> "ExprWithAlias"],
      [kind |-> "QualifiedWildcard"],
      [kind |-> "Wildcard"] }

\* A FROM clause: a flat sequence of relations cut into FROM entries; cut[i]
\* says that relation i+1 starts a new entry rather than joining the current one
RECURSIVE Grouped(_, _)
Grouped(rels, cut) ==
    IF Len(rels) = 0 THEN <<>>
    ELSE IF Len(rels) = 1 THEN << [relation |-> rels[1], joins |-> <<>>] >>
    ELSE LET n == Len(rels)
             front == Grouped(SubSeq(rels, 1, n - 1), SubSeq(cut, 1, n - 2))
             m == Len(front)
         IN  IF cut[n - 1]
             THEN Append(front, [relation |-> rels[n], joins |-> <<>>])
             ELSE [front EXCEPT ![m].joins = Append(@, [relation |-> rels[n]])]

FromClauses ==
    { Grouped(rels, cut) :
        <<rels, cut>> \in UNION { [1..k -> Relations] \X [1..(k - 1) -> BOOLEAN] : k \in 1..MaxRel } }
    \cup { <<>> }

Projections == SeqsUpTo(SelectItems, MaxProj) \ { <<>> }

Select(f, p) == [kind |-> "Query", body |-> [kind |-> "Select", from |-> f, projection |-> p]]

NonSelectQueries ==
    { [kind |-> "Query", body |-> [kind |-> k]] : k \in {"SetOperation", "Values"} }

NonQueries == { [kind |-> k] : k \in {"Insert", "Update", "Delete", "Other"} }

IsStatement(stmt) ==
    \/ \E f \in FromClauses, p \in Projections : stmt = Select(f, p)
    \/ stmt \in NonSelectQueries \cup NonQueries

\* lines 441-458
ExtractAliasesUsingRelation(table_factor) ==
    IF table_factor.kind = "Table" /\ table_factor.alias # None
    THEN MapInsert(EmptyMap, table_factor.alias[1], ObjectNameToString(table_factor.name))
    ELSE EmptyMap

\* lines 403-405: the joins of one FROM entry
RECURSIVE ExtendWithJoins(_, _)
ExtendWithJoins(als, joins) ==
    IF joins = <<>> THEN als
    ELSE ExtendWithJoins(MapExtend(als, ExtractAliasesUsingRelation(joins[1].relation)),
                         Tail(joins))

\* lines 399-406: the FROM entries in order, each followed by its joins
RECURSIVE ExtendWithFrom(_, _)
ExtendWithFrom(als, from) ==
    IF from = <<>> THEN als
    ELSE ExtendWithFrom(
            ExtendWithJoins(MapExtend(als, ExtractAliasesUsingRelation(from[1].relation)),
                            from[1].joins),
            Tail(from))

\* A bug the per-statement scope rules out: the scope starts from the previous one
ScopeStartLeaking(previous) == previous

\* line 397: let mut aliases = HashMap::new()
ScopeStart(previous) == EmptyMap

TableField(database, schm, table, field) ==
    [variant |-> "TableField", database |-> database, schema |-> schm,
     table |-> table, field |-> field]

OutputField(source, name) == [source |-> source, name |-> name]

\* lines 468-476
BareIdentifier(ident) ==
    << OutputField(TableField(None, None, None, ident), ident) >>

\* A bug the alias rule excludes: the qualifier is taken literally
TwoPartLiteral(idents, als) ==
    << OutputField(TableField(None, None, Some(idents[1]), idents[2]), idents[2]) >>

\* lines 478-494
TwoPart(idents, als) ==
    LET table == IF idents[1] \in DOMAIN als THEN als[idents[1]] ELSE idents[1]
    IN  << OutputField(TableField(None, None, Some(table), idents[2]), idents[2]) >>

\* A bug the three-part rule excludes: the table part is looked up in the scope
ThreePartViaScope(idents, als) == 
    LET table == IF idents[2] \in DOMAIN als THEN als[idents[2]] ELSE idents[2]
    IN  << OutputField(TableField(None, Some(idents[1]), Some(table), idents[3]), idents[3]) >>

\* lines 495-505
ThreePart(idents, als) ==
    << OutputField(TableField(None, Some(idents[1]), Some(idents[2]), idents[3]), idents[3]) >>

\* lines 506-516
FourPart(idents, als) ==
    << OutputField(TableField(Some(idents[1]), Some(idents[2]), Some(idents[3]), idents[4]),
                   idents[4]) >>

\* lines 460-535
ExtractOutputFieldsFromSelectItem(select_item, als) ==
    IF select_item.kind = "UnnamedExpr"
    THEN CASE select_item.expr.kind = "Identifier" -> BareIdentifier(select_item.expr.ident)
           [] select_item.expr.kind = "CompoundIdentifier" ->
                LET idents == select_item.expr.idents
                IN  CASE Len(idents) = 2 -> TwoPart(idents, als)
                      [] Len(idents) = 3 -> ThreePart(idents, als)
                      [] Len(idents) = 4 -> FourPart(idents, als)
                      [] OTHER -> <<>>
           [] OTHER -> <<>>
    ELSE <<>>   \* ExprWithAlias, QualifiedWildcard, Wildcard

\* lines 408-411
RECURSIVE ProjectionFields(_, _)
ProjectionFields(projection, als) ==
    IF projection = <<>> THEN <<>>
    ELSE ExtractOutputFieldsFromSelectItem(projection[1], als)
            \o ProjectionFields(Tail(projection), als)

\* line 395: query.body.as_select() is Some only for a plain SELECT
IsSelect(stmt) == stmt.kind = "Query" /\ stmt.body.kind = "Select"
UnwrapPanics(stmt) == stmt.kind = "Query" /\ stmt.body.kind # "Select"

\* lines 397-406
StatementAliases(stmt, previous) == ExtendWithFrom(ScopeStart(previous), stmt.body.from)

\* lines 394-412: the Query arm on a plain SELECT
SelQuery ==
    /\ sel_pc = "start"
    /\ IsSelect(statement)
    /\ aliases' = StatementAliases(statement, aliases)
    /\ output_fields' = ProjectionFields(statement.body.projection, aliases')
    /\ sel_pc' = "done"
    /\ UNCHANGED statement
    /\ UNCHANGED <<schemaVars, diagVars, mainVars>>

\* line 395: unwrap() of None
SelPanic ==
    /\ sel_pc = "start"
    /\ UnwrapPanics(statement)
    /\ sel_pc' = "panicked"
    /\ UNCHANGED <<statement, aliases, output_fields>>
    /\ UNCHANGED <<schemaVars, diagVars, mainVars>>

\* lines 413-424: Insert, Update, Delete and every other statement
SelNoFields ==
    /\ sel_pc = "start"
    /\ statement.kind # "Query"
    /\ sel_pc' = "done"
    /\ UNCHANGED <<statement, aliases, output_fields>>
    /\ UNCHANGED <<schemaVars, diagVars, mainVars>>


SelNext == SelQuery \/ SelPanic \/ SelNoFields

-----------------------------------------------------------------------------
(* The diagnostic window: extract_line_number_from_parse_error,            *)
(* extract_debug_block_with_line_number_range and                          *)
(* QueryParseError::from_parser_error (SchemaParseError's is the same)     *)

\* `x as usize` of an i32 is a sign extension: a negative x becomes 2^64 + x, which
\* is more than any text has lines.  SkipCount is how many of the `len` lines
\* skip(x as usize) consumes.
SkipCount(x, len) == IF x < 0 \/ x > len THEN len ELSE x

LineTexts == { "SELECT", "" }

Texts == SeqsUpTo(LineTexts, MaxLines) \ { <<>> }

\* A message is its pieces around "Line: ", each piece its fields around ",";
\* a field is a decimal i32 or some other text
Num(n) == [numeric |-> TRUE, value |-> n]
Txt == [numeric |-> FALSE]

Messages ==
    { << <<Txt, Txt>> >> }
    \cup { << <<Txt, Txt>>, <<Num(n), Txt>> >> : n \in 0..(MaxLines + 1) }
    \cup { << <<Txt>>, <<Txt, Txt>> >> }

ParserErrors ==
    { [variant |-> "ParserError", msg |-> m] : m \in Messages }
    \cup { [variant |-> "TokenizerError", msg |-> m] : m \in Messages }
    \cup { [variant |-> "RecursionLimitExceeded"] }

\* lines 63-79
ExtractLineNumberFromParseError(parse_error) ==
    IF Len(parse_error) < 2 THEN -1
    ELSE LET before_comma == parse_error[2][1]
         IN  IF before_comma.numeric THEN before_comma.value ELSE -1

\* lines 42-61: skip(line_start as usize), take((line_end - line_start) as usize),
\* each line prefixed with line_start + offset + 1 and a tab
ExtractDebugBlockWithLineNumberRange(txt, line_start, line_end) ==
    LET skipped == SkipCount(line_start, Len(txt))
        rest == Len(txt) - skipped
        count == SkipCount(line_end - line_start, rest)
    IN  [i \in 1..count |->
            [line_number |-> line_start + (i - 1) + 1, line |-> txt[skipped + i]]]

\* lines 341-351
DebugOf(contents, err) ==
    IF err.variant = "ParserError"
    THEN LET line_number == ExtractLineNumberFromParseError(err.msg)
         IN  Some(ExtractDebugBlockWithLineNumberRange(contents, line_number - 2, line_number + 2))
    ELSE None

\* lines 341-348: a ParserError::ParserError gets a window
DiagWindow ==
    /\ diag_pc = "start"
    /\ parser_error.variant = "ParserError"
    /\ debug' = DebugOf(text, parser_error)
    /\ diag_pc' = "done"
    /\ UNCHANGED <<text, parser_error>>
    /\ UNCHANGED <<schemaVars, selVars, mainVars>>

\* lines 349-351: every other ParserError gets none
DiagNoWindow ==
    /\ diag_pc = "start"
    /\ parser_error.variant # "ParserError"
    /\ debug' = DebugOf(text, parser_error)
    /\ diag_pc' = "done"
    /\ UNCHANGED <<text, parser_error>>
    /\ UNCHANGED <<schemaVars, selVars, mainVars>>


DiagNext == DiagWindow \/ DiagNoWindow

-----------------------------------------------------------------------------
(* main *)

SampleSchemaAst ==
    << [kind |-> "CreateTable", name |-> <<"orders">>,
        columns |-> << [name |-> "id", data_type |-> "INTEGER"],
                       [name |-> "total", data_type |-> "TEXT"] >>] >>

SchemaAsts == { SampleSchemaAst }

\* lines 278-299: parse_schema_file on a parsed schema
RECURSIVE ParseSchemaFile(_)
ParseSchemaFile(ast) ==
    IF ast = <<>> THEN EmptyMap
    ELSE LET n == Len(ast)
             front == ParseSchemaFile(SubSeq(ast, 1, n - 1))
         IN  IF ast[n].kind = "CreateTable" THEN TablesInsert(front, ast[n]) ELSE front

FromOrdersAsO ==
    << [relation |-> [kind |-> "Table", name |-> <<"orders">>, alias |-> Some("o")],
        joins |-> <<>>] >>
FromOrders ==
    << [relation |-> [kind |-> "Table", name |-> <<"orders">>, alias |-> None],
        joins |-> <<>>] >>
FromDerived ==
    << [relation |-> [kind |-> "Derived", alias |-> Some("o")], joins |-> <<>>] >>

\* The statements of the batch's query files
BatchStatements ==
    { Select(FromOrdersAsO, << Compound(<<"o", "id">>) >>),
      Select(FromOrders, << Compound(<<"o", "id">>) >>),
      Select(FromDerived, << [kind |-> "UnnamedExpr", expr |-> [kind |-> "Function"]],
                             Compound(<<"db", "o", "main", "orders", "id">>) >>),
      [kind |-> "Query", body |-> [kind |-> "SetOperation"]],
      [kind |-> "Insert"] }

\* lines 136-144: the schema file cannot be read
ReadSchemaFail ==
    /\ pc = "schema"
    /\ pc' = "exit1"
    /\ UNCHANGED <<schema, files, file_ast, results, scope, queries>>
    /\ UNCHANGED <<schemaVars, selVars, diagVars>>

\* lines 148-156: the schema file does not parse
ParseSchemaFail ==
    /\ pc = "schema"
    /\ pc' = "exit1"
    /\ UNCHANGED <<schema, files, file_ast, results, scope, queries>>
    /\ UNCHANGED <<schemaVars, selVars, diagVars>>

\* lines 148-160
ParseSchemaOk(ast) ==
    /\ pc = "schema"
    /\ schema' = Some(ParseSchemaFile(ast))
    /\ pc' = "dir"
    /\ UNCHANGED <<files, file_ast, results, scope, queries>>
    /\ UNCHANGED <<schemaVars, selVars, diagVars>>

\* line 162: read_dir(...)? returns the error
ReadDirFail ==
    /\ pc = "dir"
    /\ files = <<>>
    /\ pc' = "error"
    /\ UNCHANGED <<schema, files, file_ast, results, scope, queries>>
    /\ UNCHANGED <<schemaVars, selVars, diagVars>>

\* lines 191-197: a directory entry that cannot be read
DirEntryErr ==
    /\ pc = "dir"
    /\ Len(files) < MaxFiles
    /\ files' = Append(files, [fate |-> "entry_err"])
    /\ UNCHANGED <<pc, schema, file_ast, results, scope, queries>>
    /\ UNCHANGED <<schemaVars, selVars, diagVars>>

\* lines 169-173
ReadFileFail ==
    /\ pc = "dir"
    /\ Len(files) < MaxFiles
    /\ files' = Append(files, [fate |-> "unreadable"])
    /\ UNCHANGED <<pc, schema, file_ast, results, scope, queries>>
    /\ UNCHANGED <<schemaVars, selVars, diagVars>>

\* lines 177-185 with 380-384: the file does not parse
ParseFileFail ==
    /\ pc = "dir"
    /\ Len(files) < MaxFiles
    /\ files' = Append(files, [fate |-> "parse_failed"])
    /\ UNCHANGED <<pc, schema, file_ast, results, scope, queries>>
    /\ UNCHANGED <<schemaVars, selVars, diagVars>>

\* lines 177 with 385-386: the file parses, parse_query_file starts on its AST
ParseFileOk ==
    /\ pc = "dir"
    /\ Len(files) < MaxFiles
    /\ pc' = "file"
    /\ file_ast' = <<>>
    /\ results' = <<>>
    /\ scope' = EmptyMap
    /\ UNCHANGED <<schema, files, queries>>
    /\ UNCHANGED <<schemaVars, selVars, diagVars>>

\* lines 389-433: the loop body on a statement
QueryParseResult(stmt, previous) ==
    [statement |-> stmt,
     input_fields |-> <<>>,
     output_fields |->
        IF IsSelect(stmt)
        THEN ProjectionFields(stmt.body.projection, StatementAliases(stmt, previous))
        ELSE <<>>]

\* lines 388-434: one iteration of the loop over the file's statements
FileStatement(stmt) ==
    /\ pc = "file"
    /\ Len(file_ast) < MaxStmts
    /\ ~UnwrapPanics(stmt)
    /\ file_ast' = Append(file_ast, stmt)
    /\ results' = Append(results, QueryParseResult(stmt, scope))
    /\ scope' = IF IsSelect(stmt) THEN StatementAliases(stmt, scope) ELSE scope
    /\ UNCHANGED <<pc, schema, files, queries>>
    /\ UNCHANGED <<schemaVars, selVars, diagVars>>

\* line 395: unwrap() of None unwinds through parse_query_file and main
FilePanic(stmt) ==
    /\ pc = "file"
    /\ Len(file_ast) < MaxStmts
    /\ UnwrapPanics(stmt)
    /\ file_ast' = Append(file_ast, stmt)
    /\ files' = Append(files, [fate |-> "panicked", ast |-> file_ast'])
    /\ pc' = "panicked"
    /\ UNCHANGED <<schema, results, scope, queries>>
    /\ UNCHANGED <<schemaVars, selVars, diagVars>>

\* lines 436 and 186-188: queries.extend(result)
FileReturn ==
    /\ pc = "file"
    /\ queries' = queries \o results
    /\ files' = Append(files, [fate |-> "analyzed", ast |-> file_ast])
    /\ pc' = "dir"
    /\ UNCHANGED <<schema, file_ast, results, scope>>
    /\ UNCHANGED <<schemaVars, selVars, diagVars>>

\* lines 201-214: the directory is exhausted
Finish ==
    /\ pc = "dir"
    /\ pc' = "done"
    /\ UNCHANGED <<schema, files, file_ast, results, scope, queries>>
    /\ UNCHANGED <<schemaVars, selVars, diagVars>>


MainNext ==
    \/ ReadSchemaFail
    \/ ParseSchemaFail
    \/ \E ast \in SchemaAsts : ParseSchemaOk(ast)
    \/ ReadDirFail
    \/ DirEntryErr
    \/ ReadFileFail
    \/ ParseFileFail
    \/ ParseFileOk
    \/ \E stmt \in BatchStatements : FileStatement(stmt)
    \/ \E stmt \in BatchStatements : FilePanic(stmt)
    \/ FileReturn
    \/ Finish

-----------------------------------------------------------------------------------------------------------------------------------------------------
(* Properties of the schema model (SpecSchema) *)

Max(S) == CHOOSE x \in S : \A y \in S : y <= x

\* The places of the schema AST that declare table t
Declarations(t) ==
    { i \in 1..Len(schema_ast) :
        /\ schema_ast[i].kind = "CreateTable"
        /\ ObjectNameToString(schema_ast[i].name) = t }

DeclaredTables ==
    { ObjectNameToString(schema_ast[i].name) :
        i \in { k \in 1..Len(schema_ast) : schema_ast[k].kind = "CreateTable" } }

\* C3: the schema model has exactly the declared tables; the entry of a table
\* holds exactly the columns of its last declaration, each with the type text
\* declared for it (the last one, when a declaration names a column twice);
\* statements that are not table definitions contribute nothing.
C3_SchemaModel ==
    /\ DOMAIN tables = DeclaredTables
    /\ \A t \in DeclaredTables :
          LET columns == schema_ast[Max(Declarations(t))].columns
          IN  /\ DOMAIN tables[t] = { columns[i].name : i \in 1..Len(columns) }
              /\ \A i \in 1..Len(columns) :
                    (\A j \in (i + 1)..Len(columns) : columns[j].name # columns[i].name)
                        => tables[t][columns[i].name] = columns[i].data_type

\* A table declared with column total, then redeclared without it: total is gone
C3_Witness ==
    /\ schema_pc = "ok"
    /\ Len(schema_ast) = 2
    /\ schema_ast[1] = [kind |-> "CreateTable", name |-> <<"orders">>,
                        columns |-> << [name |-> "total", data_type |-> "TEXT"] >>]
    /\ schema_ast[2] = [kind |-> "CreateTable", name |-> <<"orders">>,
                        columns |-> << [name |-> "id", data_type |-> "INTEGER"] >>]
    /\ DOMAIN tables["orders"] = {"id"}

-----------------------------------------------------------------------------
(* Properties of the resolution of one statement (SpecSelect) *)

\* The relations of a FROM clause in source order: each entry, then its joins
RECURSIVE FlatRelations(_)
FlatRelations(from) ==
    IF from = <<>> THEN <<>>
    ELSE << from[1].relation >>
            \o [i \in 1..Len(from[1].joins) |-> from[1].joins[i].relation]
            \o FlatRelations(Tail(from))

Resolved == sel_pc = "done" /\ IsSelect(statement)
Projection == statement.body.projection
Scope == FlatRelations(statement.body.from)

IsIdentifier(item) == item.kind = "UnnamedExpr" /\ item.expr.kind = "Identifier"
IsQualified(item, n) ==
    /\ item.kind = "UnnamedExpr"
    /\ item.expr.kind = "CompoundIdentifier"
    /\ Len(item.expr.idents) = n

\* The projection items the code turns into an output field
Produces(item) ==
    IsIdentifier(item) \/ IsQualified(item, 2) \/ IsQualified(item, 3) \/ IsQualified(item, 4)

\* The place in output_fields of the field of projection item i
FieldPlace(projection, i) == 1 + Cardinality({ j \in 1..(i - 1) : Produces(projection[j]) })
FieldOf(i) == output_fields[FieldPlace(Projection, i)]

TableColumn(table, column) == OutputField(TableField(None, None, Some(table), column), column)

\* The relations of the scope that bind alias a
Bindings(a) == { k \in 1..Len(Scope) : Scope[k].kind = "Table" /\ Scope[k].alias = Some(a) }

\* C1 as claimed: whenever the FROM/JOIN clause binds table T under alias A, A.c
\* resolves to column c of table T, and T.c resolves to the same source.
C1_AliasOrTableName ==
    Resolved =>
        \A k \in 1..Len(Scope) :
            (Scope[k].kind = "Table" /\ Scope[k].alias # None) =>
                LET A == Scope[k].alias[1]
                    T == ObjectNameToString(Scope[k].name)
                IN  \A i \in 1..Len(Projection) :
                        (IsQualified(Projection[i], 2) /\ Projection[i].expr.idents[1] \in {A, T})
                            => FieldOf(i) = TableColumn(T, Projection[i].expr.idents[2])

\* C1 as amended: when the binding of T under A is the last binding of A in the
\* FROM/JOIN clause, A.c resolves to column c of table T; and T.c resolves to the
\* same source when T is not itself bound, as an alias, to another table.
C1_LastBindingWins ==
    Resolved =>
        \A k \in 1..Len(Scope) :
            (Scope[k].kind = "Table" /\ Scope[k].alias # None) =>
                LET A == Scope[k].alias[1]
                    T == ObjectNameToString(Scope[k].name)
                IN  \A i \in 1..Len(Projection) :
                        IsQualified(Projection[i], 2) =>
                            LET q == Projection[i].expr.idents[1]
                                c == Projection[i].expr.idents[2]
                            IN  /\ (q = A /\ k = Max(Bindings(A)))
                                      => FieldOf(i) = TableColumn(T, c)
                                /\ (q = T /\ k = Max(Bindings(A))
                                        /\ \A b \in Bindings(T) :
                                              b = Max(Bindings(T))
                                                  => ObjectNameToString(Scope[b].name) = T)
                                      => FieldOf(i) = TableColumn(T, c)

\* SELECT o.id, orders.id FROM orders AS o: both fields are column id of orders
C1_Witness ==
    /\ Resolved
    /\ statement.body.from = FromOrdersAsO
    /\ Projection = << Compound(<<"o", "id">>), Compound(<<"orders", "id">>) >>
    /\ output_fields = << TableColumn("orders", "id"), TableColumn("orders", "id") >>

\* C2: with exactly one FROM table and no alias, a bare identifier col resolves
\* to column col of that table.
C2_BareIdentifier ==
    (Resolved /\ Len(Scope) = 1 /\ Scope[1].kind = "Table" /\ Scope[1].alias = None) =>
        \A i \in 1..Len(Projection) :
            IsIdentifier(Projection[i]) =>
                FieldOf(i) = TableColumn(ObjectNameToString(Scope[1].name),
                                         Projection[i].expr.ident)

\* The columns the sample schema declares for table t, in declaration order
DeclaredColumns(t) ==
    LET ds == { i \in 1..Len(SampleSchemaAst) :
                  /\ SampleSchemaAst[i].kind = "CreateTable"
                  /\ ObjectNameToString(SampleSchemaAst[i].name) = t }
    IN  IF ds = {} THEN <<>>
        ELSE LET columns == SampleSchemaAst[Max(ds)].columns
             IN  [i \in 1..Len(columns) |-> columns[i].name]

RECURSIVE WildcardExpansion(_)
WildcardExpansion(relations) ==
    IF relations = <<>> THEN <<>>
    ELSE LET t == IF relations[1].kind = "Table"
                  THEN ObjectNameToString(relations[1].name) ELSE ""
             columns == DeclaredColumns(t)
         IN  [i \in 1..Len(columns) |-> TableColumn(t, columns[i])]
                \o WildcardExpansion(Tail(relations))

\* C6: the projection * yields one table-column field per column of every table
\* of the scope, in FROM/JOIN order and then in declaration order (id then total
\* for SELECT * FROM orders AS o).
C6_WildcardExpansion ==
    (Resolved /\ Projection = << [kind |-> "Wildcard"] >>)
        => output_fields = WildcardExpansion(Scope)

\* The aliases and literal table names of the scope
BoundNames ==
    { Scope[k].alias[1] : k \in { n \in 1..Len(Scope) : Scope[n].alias # None } }
    \cup { ObjectNameToString(Scope[k].name) :
             k \in { n \in 1..Len(Scope) : Scope[n].kind = "Table" } }

Without(seq, i) == SubSeq(seq, 1, i - 1) \o SubSeq(seq, i + 1, Len(seq))

\* C7: an item qualified by a name the scope does not bind yields a field marked
\* Unresolved, and the fields of the other items are those of the statement
\* without that item, in the same order.
C7_UnboundAlias ==
    Resolved =>
        \A i \in 1..Len(Projection) :
            (IsQualified(Projection[i], 2) /\ Projection[i].expr.idents[1] \notin BoundNames) =>
                /\ FieldOf(i).source.variant = "Unresolved"
                /\ Without(output_fields, FieldPlace(Projection, i))
                     = ProjectionFields(Without(Projection, i), aliases)

\* C8: s.t.c resolves to schema s, table t, column c and no database; d.s.t.c to
\* database d, schema s, table t, column c; the name is c; whatever the scope binds.
C8_QualifiedNames ==
    Resolved =>
        \A i \in 1..Len(Projection) :
            LET ids == Projection[i].expr.idents
            IN  /\ IsQualified(Projection[i], 3) =>
                     FieldOf(i) = OutputField(TableField(None, Some(ids[1]), Some(ids[2]), ids[3]),
                                              ids[3])
                /\ IsQualified(Projection[i], 4) =>
                     FieldOf(i) = OutputField(
                                    TableField(Some(ids[1]), Some(ids[2]), Some(ids[3]), ids[4]),
                                    ids[4])

\* SELECT o.orders.id, o.main.orders.id FROM orders AS o JOIN customers AS orders:
\* the scope binds o and orders, and both are taken literally
C8_Witness ==
    /\ Resolved
    /\ DOMAIN aliases = {"o", "orders"}
    /\ aliases["orders"] = "customers"
    /\ Projection = << Compound(<<"o", "orders", "id">>),
                       Compound(<<"o", "main", "orders", "id">>) >>
    /\ output_fields[1].source.table = Some("orders")
    /\ output_fields[1].source.schema = Some("o")
    /\ output_fields[2].source.database = Some("o")

-----------------------------------------------------------------------------
(* Properties of the diagnostic window (SpecDiag) *)

Lower(a, b) == IF a < b THEN a ELSE b
Higher(a, b) == IF a > b THEN a ELSE b

\* C5: for a failure reported at line n of a text of L lines, 1 <= n <= L, the
\* window is the lines Higher(1, n-2) .. Lower(L, n+2), each with its own number.
C5_Window ==
    (/\ diag_pc = "done"
     /\ parser_error.variant = "ParserError"
     /\ ExtractLineNumberFromParseError(parser_error.msg) \in 1..Len(text)) =>
        LET n == ExtractLineNumberFromParseError(parser_error.msg)
            first == Higher(1, n - 2)
            last == Lower(Len(text), n + 2)
        IN  debug = Some([i \in 1..(last - first + 1) |->
                            [line_number |-> first + i - 1, line |-> text[first + i - 1]]])

-----------------------------------------------------------------------------
(* Properties of the batch run (SpecMain) *)

\* C4: the statements of every file that parses after a file that failed to parse
\* are in the results, and a schema file that fails to parse ends the run with no
\* query file visited.
C4_ParseFailures ==
    /\ \A i \in 1..Len(files) : \A j \in (i + 1)..Len(files) :
          (files[i].fate = "parse_failed" /\ files[j].fate \in {"analyzed", "panicked"}) =>
              \A k \in 1..Len(files[j].ast) :
                  \E q \in 1..Len(queries) : queries[q].statement = files[j].ast[k]
    /\ pc = "exit1" => (files = <<>> /\ queries = <<>>)

\* C9: no statement of a parsed file aborts the analysis: every statement taken
\* from the current file has its result, and the run never panics.
C9_NeverAborts ==
    /\ pc # "panicked"
    /\ pc = "file" => Len(results) = Len(file_ast)

\* The aliases a statement's own FROM/JOIN clause declares
OwnAliases(stmt) ==
    LET rels == FlatRelations(stmt.body.from)
    IN  { rels[k].alias[1] :
            k \in { n \in 1..Len(rels) : rels[n].kind = "Table" /\ rels[n].alias # None } }

\* The result of a statement holds what resolving that statement alone yields, and
\* a qualifier that is no alias of the statement itself is taken literally
IndependentResult(r) ==
    IF IsSelect(r.statement)
    THEN LET projection == r.statement.body.projection
         IN  /\ r.output_fields
                  = ProjectionFields(projection, ExtendWithFrom(EmptyMap, r.statement.body.from))
             /\ \A i \in 1..Len(projection) :
                   (/\ IsQualified(projection[i], 2)
                    /\ projection[i].expr.idents[1] \notin OwnAliases(r.statement))
                       => r.output_fields[FieldPlace(projection, i)].source.table
                            = Some(projection[i].expr.idents[1])
    ELSE r.output_fields = <<>>

\* C10: every step leaves each result equal to that of its statement resolved
\* alone, with no alias of another statement visible, builds the scope of a SELECT
\* from it alone, and, while a file is analyzed, leaves the schema model unchanged.
C10_Independent ==
    [][ /\ \A k \in 1..Len(results') : IndependentResult(results'[k])
        /\ \A k \in 1..Len(queries') : IndependentResult(queries'[k])
        /\ (Len(file_ast') > Len(file_ast) /\ IsSelect(file_ast'[Len(file_ast')]))
              => DOMAIN scope' = OwnAliases(file_ast'[Len(file_ast')])
        /\ pc = "file" => schema' = schema ]_vars

\* SELECT o.id FROM orders AS o; SELECT o.id FROM orders: the second o is unbound
C10_Witness ==
    /\ pc = "file"
    /\ schema = Some(ParseSchemaFile(SampleSchemaAst))
    /\ Len(results) = 2
    /\ results[1].statement = Select(FromOrdersAsO, << Compound(<<"o", "id">>) >>)
    /\ results[1].output_fields = << TableColumn("orders", "id") >>
    /\ results[2].statement = Select(FromOrders, << Compound(<<"o", "id">>) >>)
    /\ results[2].output_fields = << TableColumn("o", "id") >>

-----------------------------------------------------------------------------
(* Specifications: each runs one part of the program and leaves the        *)
(* variables of the other parts at rest                                    *)

IdleStatement == [kind |-> "Other"]
IdleError == [variant |-> "RecursionLimitExceeded"]

InitSchema ==
    /\ schema_pc = "loop" /\ schema_ast = <<>> /\ tables = EmptyMap
    /\ sel_pc = "idle" /\ statement = IdleStatement /\ aliases = EmptyMap /\ output_fields = <<>>
    /\ diag_pc = "idle" /\ text = <<"">> /\ parser_error = IdleError /\ debug = None
    /\ pc = "idle" /\ schema = None /\ files = <<>> /\ file_ast = <<>> /\ results = <<>>
    /\ scope = EmptyMap /\ queries = <<>>

InitSelect ==
    /\ schema_pc = "idle" /\ schema_ast = <<>> /\ tables = EmptyMap
    /\ sel_pc = "start" /\ IsStatement(statement) /\ aliases = EmptyMap /\ output_fields = <<>>
    /\ diag_pc = "idle" /\ text = <<"">> /\ parser_error = IdleError /\ debug = None
    /\ pc = "idle" /\ schema = None /\ files = <<>> /\ file_ast = <<>> /\ results = <<>>
    /\ scope = EmptyMap /\ queries = <<>>

InitDiag ==
    /\ schema_pc = "idle" /\ schema_ast = <<>> /\ tables = EmptyMap
    /\ sel_pc = "idle" /\ statement = IdleStatement /\ aliases = EmptyMap /\ output_fields = <<>>
    /\ diag_pc = "start" /\ text \in Texts /\ parser_error \in ParserErrors /\ debug = None
    /\ pc = "idle" /\ schema = None /\ files = <<>> /\ file_ast = <<>> /\ results = <<>>
    /\ scope = EmptyMap /\ queries = <<>>

InitMain ==
    /\ schema_pc = "idle" /\ schema_ast = <<>> /\ tables = EmptyMap
    /\ sel_pc = "idle" /\ statement = IdleStatement /\ aliases = EmptyMap /\ output_fields = <<>>
    /\ diag_pc = "idle" /\ text = <<"">> /\ parser_error = IdleError /\ debug = None
    /\ pc = "schema" /\ schema = None /\ files = <<>> /\ file_ast = <<>> /\ results = <<>>
    /\ scope = EmptyMap /\ queries = <<>>

SpecSchema == InitSchema /\ [][SchemaNext]_vars

SpecSelect == InitSelect /\ [][SelNext]_vars

SpecDiag == InitDiag /\ [][DiagNext]_vars

SpecMain == InitMain /\ [][MainNext]_vars

====
